---- MODULE Spec2Model ----
(***************************************************************************)
(* Model of the copilot-code-review extension: the @pr chat participant,   *)
(* the git diff acquisition, the model selection and prompt composition,   *)
(* and the heuristic parser / grouper / anchorer that turns the language   *)
(* model's markdown review into chat stream events.                        *)
(*                                                                         *)
(* Text is modelled at two levels.  Short strings whose characters the     *)
(* code inspects (branch listings, command names, prompts with flags) are  *)
(* sequences of one-character strings.  The review text is a sequence of   *)
(* lines, each line carrying what the regular expressions of the parser    *)
(* recover from it: its kind (heading, bullet, text, blank), the file name *)
(* it mentions and the first line reference it contains.                   *)
(***************************************************************************)
EXTENDS Integers, Sequences, FiniteSets, TLC

VARIABLES
  review,            \* text handed to streamCodeReview (model response content)
  workspaceFolders,  \* TRUE when vscode.workspace.workspaceFolders is non-empty
  stream,            \* events written to the vscode.ChatResponseStream
  thrown,            \* TRUE when the last call let an exception escape
  pc,                \* position of the running call
  typed,             \* what the user typed after @pr: [cmd, args]
  request,           \* the vscode.ChatRequest: [command, prompt]
  handlers,          \* command handlers invoked for the request, in order
  includeFiles,      \* local of handleReviewCodeCommand
  branches,          \* branch names of the repository
  gitCalls,          \* git commands executed, in order
  mainBranchName,    \* local of getDiffWithMainBranch
  diffResult,        \* result of getDiffWithMainBranch
  prTemplate,        \* PR template with the ticket number filled in
  existingFiles,     \* changed files that exist in the workspace folder
  changedFiles,      \* result of getChangedFilesContent
  customPrompt,      \* setting copilotCodeReview.customPrompt
  models,            \* chat models the host offers
  model,             \* model returned by selectChatModel
  lmRequests,        \* prompts sent with model.sendRequest, in order
  pending,           \* response fragments not yet received
  token,             \* token.isCancellationRequested
  result,            \* value the request handler returned
  registered,        \* TRUE once copilot-code-review.copyToClipboard is registered
  requests,          \* requests handled in this session
  response,          \* ICopilotResponse the command handler last received
  linePrefix,        \* text of the chat input line up to the cursor
  completionItems,   \* value provideCompletionItems returned
  outputChannel,     \* TRUE once Logger.outputChannel is created
  debugMode,         \* Logger.debugMode
  enableDebugLogging,\* setting copilotCodeReview.enableDebugLogging
  channelLines,      \* lines appended to the output channel
  consoleLines,      \* lines written with console.log
  logCalls,          \* calls of Logger.debug / info / warn / error, in order
  commandOptions,    \* CommandOptions of the running palette command or participant
  executed,          \* vscode.commands.executeCommand calls that completed
  notifications,     \* vscode.window.showErrorMessage calls
  runs,              \* palette command executions started
  settled            \* how the awaited handlerFn settled

streamVars == <<review, workspaceFolders, stream, thrown, pc>>
chatVars == <<typed, request, handlers, includeFiles, branches, gitCalls, mainBranchName,
              diffResult, prTemplate, existingFiles,
              changedFiles, customPrompt, models, model, lmRequests, pending,
              token, result, registered, requests, response>>
completionVars == <<linePrefix, completionItems>>
loggerVars == <<outputChannel, debugMode, enableDebugLogging, channelLines, consoleLines,
                logCalls>>
paletteVars == <<commandOptions, executed, notifications, runs>>
participantVars == <<settled>>
extVars == <<completionVars, loggerVars, paletteVars, participantVars>>
vars == <<streamVars, chatVars, extVars>>

----------------------------------------------------------------------------
(* Bounds *)

MaxLines == 3     \* lines of a review text
MaxLineNo == 2    \* largest line number written in a line reference
MaxRequests == 2  \* chat requests in one session
MaxGroupLines == 7 \* lines of a review text in the grouping specification

----------------------------------------------------------------------------
(* Character strings *)

\* String.prototype.includes
Includes(hay, needle) ==
  \E i \in 0..(Len(hay) - Len(needle)) :
    \A j \in 1..Len(needle) : hay[i + j] = needle[j]

\* String.prototype.startsWith
StartsWith(s, prefix) ==
  /\ Len(prefix) <= Len(s)
  /\ \A j \in 1..Len(prefix) : s[j] = prefix[j]

\* String.prototype.replace(ch, '') with a one-character pattern: removes the
\* first occurrence only
ReplaceFirst(s, ch) ==
  IF \E i \in 1..Len(s) : s[i] = ch
    THEN LET i == CHOOSE k \in 1..Len(s) : s[k] = ch /\ \A m \in 1..(k - 1) : s[m] # ch
         IN  SubSeq(s, 1, i - 1) \o SubSeq(s, i + 1, Len(s))
    ELSE s

\* Elements of a set of integers in increasing order
RECURSIVE SortedSeq(_)
SortedSeq(S) ==
  IF S = {} THEN <<>>
  ELSE LET m == CHOOSE x \in S : \A y \in S : x <= y
       IN  <<m>> \o SortedSeq(S \ {m})

\* Array.prototype.pop() of a path split on '/'
LastSegment(path) == path[Len(path)]

----------------------------------------------------------------------------
(* Review text *)

NoFile == <<>>                       \* undefined / empty file capture
NoRef == <<>>                        \* no LINE_REF match

\* File paths as sequences of segments
FileNames == {<<"a.ts">>, <<"src", "a.ts">>}
InlineFiles == {<<"b.ts">>}

\* Results of LINE_PATTERNS.LINE_REF on a line: 'Line N' or 'Line N-M'
Refs ==
  {NoRef} \cup {<<n>> : n \in 0..MaxLineNo}
          \cup {<<n, m>> : n \in 1..MaxLineNo, m \in 0..MaxLineNo}

Heading(f) == [kind |-> "heading", file |-> f, ref |-> NoRef]
Bullet(f, r) == [kind |-> "bullet", file |-> f, ref |-> r]
TextLine(f) == [kind |-> "text", file |-> f, ref |-> NoRef]
Blank == [kind |-> "blank", file |-> NoFile, ref |-> NoRef]

Lines ==
  {Heading(f) : f \in FileNames \cup {NoFile}}
    \cup {Bullet(f, r) : f \in InlineFiles \cup {NoFile}, r \in Refs}
    \cup {TextLine(f) : f \in InlineFiles \cup {NoFile}}
    \cup {Blank}

Reviews == UNION {[1..n -> Lines] : n \in 0..MaxLines}

----------------------------------------------------------------------------
(* parseReviewComments: sections, items, comments *)

\* content.split(/(?=^#{1,3} )/m): a section starts at the first line and at
\* every heading line
SectionStarts(content) ==
  IF Len(content) = 0 THEN {}
  ELSE {1} \cup {i \in 1..Len(content) : content[i].kind = "heading"}

SectionEnd(content, s) ==
  LET later == {t \in SectionStarts(content) : t > s}
  IN  IF later = {} THEN Len(content)
      ELSE (CHOOSE t \in later : \A u \in later : t <= u) - 1

\* FILE_PATTERNS.HEADING on the section, then FILE_PATTERNS.INLINE on its
\* first three lines
SectionFile(section) ==
  IF section[1].kind = "heading" /\ section[1].file # NoFile
    THEN section[1].file
  ELSE LET firstLines == {i \in 1..Len(section) :
                            i <= 3 /\ section[i].kind # "heading" /\ section[i].file # NoFile}
       IN  IF firstLines = {} THEN NoFile
           ELSE section[CHOOSE i \in firstLines : \A j \in firstLines : i <= j].file

\* section.split(/\n(?:[-*+] |(?=\d+\. ))/): an item starts at the first line
\* of the section and at every bullet line
ItemStarts(section) ==
  {1} \cup {i \in 1..Len(section) : section[i].kind = "bullet"}

ItemEnd(section, a) ==
  LET later == {t \in ItemStarts(section) : t > a}
  IN  IF later = {} THEN Len(section)
      ELSE (CHOOSE t \in later : \A u \in later : t <= u) - 1

\* !line.trim() || line.trim().startsWith('#')
SkipItem(section, a, b) ==
  LET nonBlank == {i \in a..b : section[i].kind # "blank"}
  IN  \/ nonBlank = {}
      \/ section[CHOOSE i \in nonBlank : \A j \in nonBlank : i <= j].kind = "heading"

\* line.match(LINE_PATTERNS.LINE_REF): the first reference in the item
ItemRef(section, a, b) ==
  LET withRef == {i \in a..b : section[i].ref # NoRef}
  IN  IF withRef = {} THEN NoRef
      ELSE section[CHOOSE i \in withRef : \A j \in withRef : i <= j].ref

\* line.match(FILE_PATTERNS.INLINE): the first inline file in the item
ItemFile(section, a, b) ==
  LET withFile == {i \in a..b : section[i].kind # "heading" /\ section[i].file # NoFile}
  IN  IF withFile = {} THEN NoFile
      ELSE section[CHOOSE i \in withFile : \A j \in withFile : i <= j].file

\* The loop of parseSectionComments over the items; file is the loop-carried
\* variable, offset the position of the section in the review
RECURSIVE ParseItems(_, _, _, _)
ParseItems(section, starts, file, offset) ==
  IF Len(starts) = 0 THEN <<>>
  ELSE LET a == Head(starts)
           b == ItemEnd(section, a)
       IN  IF SkipItem(section, a, b)
             THEN ParseItems(section, Tail(starts), file, offset)
           ELSE LET newFile == IF file = NoFile THEN ItemFile(section, a, b) ELSE file
                    c == [file |-> newFile,
                          lineNumbers |-> ItemRef(section, a, b),
                          comment |-> offset + a]
                IN  <<c>> \o ParseItems(section, Tail(starts), newFile, offset)

parseSectionComments(section, offset) ==
  ParseItems(section, SortedSeq(ItemStarts(section)), SectionFile(section), offset)

RECURSIVE ParseSections(_, _)
ParseSections(content, starts) ==
  IF Len(starts) = 0 THEN <<>>
  ELSE LET s == Head(starts)
           e == SectionEnd(content, s)
       IN  parseSectionComments(SubSeq(content, s, e), s - 1)
             \o ParseSections(content, Tail(starts))

parseReviewComments(content) ==
  ParseSections(content, SortedSeq(SectionStarts(content)))

\* Variant: any parsed comment counts as a file reference
hasFileReferences_AnyComment(comments) ==
  Len(comments) > 0

hasFileReferences(comments) ==
  \E i \in 1..Len(comments) : comments[i].file # NoFile

----------------------------------------------------------------------------
(* groupCommentsByFile: a Map in insertion order, as a sequence of entries *)

CurrentFile == <<"Current File">>

GroupIndex(groups, file) ==
  {g \in 1..Len(groups) : groups[g].file = file}

RECURSIVE GroupLoop(_, _)
GroupLoop(comments, groups) ==
  IF Len(comments) = 0 THEN groups
  ELSE LET c == Head(comments)
       IN  IF c.file = NoFile THEN GroupLoop(Tail(comments), groups)
           ELSE IF GroupIndex(groups, c.file) = {}
             THEN GroupLoop(Tail(comments),
                            Append(groups, [file |-> c.file, comments |-> <<c>>]))
           ELSE LET g == CHOOSE k \in GroupIndex(groups, c.file) : TRUE
                IN  GroupLoop(Tail(comments),
                              [groups EXCEPT ![g].comments = Append(@, c)])

\* Variant: the comments without a file are kept, under 'Current File'
groupCommentsByFile_KeepsAll(comments) ==
  LET fileGroups == GroupLoop(comments, <<>>)
      others == SelectSeq(comments, LAMBDA c : c.file = NoFile)
  IN  IF Len(others) > 0
        THEN Append(fileGroups, [file |-> CurrentFile, comments |-> others])
      ELSE fileGroups

groupCommentsByFile(comments) ==
  LET fileGroups == GroupLoop(comments, <<>>)
  IN  IF Len(fileGroups) = 0 /\ Len(comments) > 0
        THEN <<[file |-> CurrentFile, comments |-> comments]>>
      ELSE fileGroups

----------------------------------------------------------------------------
(* Chat stream events *)

Markdown(t) == [type |-> "markdown", text |-> t]
Anchor(loc, title) == [type |-> "anchor", location |-> loc, title |-> title]
Reference(uri) == [type |-> "reference", uri |-> uri]

\* Result of a call: the events it wrote and whether an exception escaped
Ok(events) == [out |-> events, threw |-> FALSE]
Throw(events) == [out |-> events, threw |-> TRUE]

\* vscode.Uri.parse(workspaceFolder)
WorkspaceUri == <<"ws">>

\* String.prototype.endsWith on paths, segment-wise
PathEndsWith(path, file) ==
  /\ Len(file) <= Len(path)
  /\ SubSeq(path, Len(path) - Len(file) + 1, Len(path)) = file

createFileUri(baseUri, file) ==
  IF file = CurrentFile THEN baseUri
  ELSE IF PathEndsWith(baseUri, file) THEN baseUri
  ELSE baseUri \o file

\* Variant: the line numbers are used as they are written, one-based
createCustomAnchor_OneBased(targetUri, lineNumbers, customText) ==
  IF Len(lineNumbers) = 0
    THEN <<Anchor([uri |-> targetUri, start |-> <<0, 0>>, end |-> <<0, 0>>], customText)>>
  ELSE LET start == <<lineNumbers[1], 0>>
           end == IF Len(lineNumbers) > 1 THEN <<lineNumbers[2], 0>> ELSE start
           swap == end[1] < start[1]
           location == [uri |-> targetUri,
                        start |-> IF swap THEN end ELSE start,
                        end |-> IF swap THEN start ELSE end]
       IN  <<Anchor(location, customText)>>

\* createCustomAnchor: new vscode.Position(line, 0) throws on a negative line,
\* new vscode.Range(start, end) orders its two positions, and a Location built
\* from a Position has the empty range at that position.  A throw is caught
\* and the title is written as markdown instead.
createCustomAnchor(targetUri, lineNumbers, customText) ==
  IF Len(lineNumbers) = 0
    THEN <<Anchor([uri |-> targetUri, start |-> <<0, 0>>, end |-> <<0, 0>>], customText)>>
  ELSE IF lineNumbers[1] - 1 < 0
    THEN <<Markdown(<<customText>>)>>
  ELSE IF Len(lineNumbers) > 1 /\ lineNumbers[2] - 1 < 0
    THEN <<Markdown(<<customText>>)>>
  ELSE LET start == <<lineNumbers[1] - 1, 0>>
           end == IF Len(lineNumbers) > 1 THEN <<lineNumbers[2] - 1, 0>> ELSE start
           swap == end[1] < start[1]
           location == [uri |-> targetUri,
                        start |-> IF swap THEN end ELSE start,
                        end |-> IF swap THEN start ELSE end]
       IN  <<Anchor(location, customText)>>

streamCommentWithAnchor(comment, docUri, file, index) ==
  IF Len(comment.lineNumbers) > 0
    THEN <<Markdown(<<"index", index + 1>>)>>
           \o createCustomAnchor(createFileUri(docUri, file), comment.lineNumbers, "View code")
           \o <<Markdown(<<"anchored comment", comment.comment>>)>>
  ELSE <<Markdown(<<"comment", comment.comment>>)>>

RECURSIVE StreamComments(_, _, _, _)
StreamComments(comments, docUri, file, index) ==
  IF index >= Len(comments) THEN <<>>
  ELSE streamCommentWithAnchor(comments[index + 1], docUri, file, index)
         \o StreamComments(comments, docUri, file, index + 1)

RECURSIVE StreamGroups(_, _)
StreamGroups(fileGroups, docUri) ==
  IF Len(fileGroups) = 0 THEN <<>>
  ELSE LET g == Head(fileGroups)
       IN  <<Markdown(<<"header", LastSegment(g.file)>>), Markdown(<<"newline">>)>>
             \o StreamComments(g.comments, docUri, g.file, 0)
             \o StreamGroups(Tail(fileGroups), docUri)

\* The catch branch of streamCommentsWithAnchors: plain markdown per group
RECURSIVE PlainComments(_)
PlainComments(comments) ==
  IF Len(comments) = 0 THEN <<>>
  ELSE <<Markdown(<<"plain comment", Head(comments).comment>>)>>
         \o PlainComments(Tail(comments))

RECURSIVE PlainGroups(_)
PlainGroups(fileGroups) ==
  IF Len(fileGroups) = 0 THEN <<>>
  ELSE <<Markdown(<<"plain header", Head(fileGroups).file>>)>>
         \o PlainComments(Head(fileGroups).comments)
         \o PlainGroups(Tail(fileGroups))

streamCommentsWithAnchors(fileGroups, ws) ==
  IF ~ws THEN PlainGroups(fileGroups)
  ELSE StreamGroups(fileGroups, WorkspaceUri)

RECURSIVE References(_, _)
References(fileGroups, docUri) ==
  IF Len(fileGroups) = 0 THEN <<>>
  ELSE <<Reference(createFileUri(docUri, Head(fileGroups).file))>>
         \o References(Tail(fileGroups), docUri)

\* The raw review text as one markdown event
Raw(reviewContent) == Markdown(<<"raw", reviewContent>>)

\* Variant: no try / catch around the structured processing
streamCodeReview_NoCatch(reviewContent, ws) ==
  IF Len(reviewContent) = 0 THEN Ok(<<>>)
  ELSE LET comments == parseReviewComments(reviewContent)
       IN  IF Len(comments) = 0 \/ ~hasFileReferences(comments)
             THEN Ok(<<Raw(reviewContent)>>)
           ELSE LET fileGroups == groupCommentsByFile(comments)
                IN  IF ~ws
                      THEN Throw(<<>>)
                    ELSE Ok(References(fileGroups, WorkspaceUri)
                              \o streamCommentsWithAnchors(fileGroups, ws))

\* streamCodeReview(reviewContent, stream); ws is getWorkspaceFolder() # undefined
streamCodeReview(reviewContent, ws) ==
  IF Len(reviewContent) = 0 THEN Ok(<<>>)
  ELSE LET comments == parseReviewComments(reviewContent)
       IN  IF Len(comments) = 0 \/ ~hasFileReferences(comments)
             THEN Ok(<<Raw(reviewContent)>>)
           ELSE LET fileGroups == groupCommentsByFile(comments)
                IN  IF ~ws
                      THEN Ok(<<Raw(reviewContent)>>)   \* thrown at line 68, caught at 78
                    ELSE Ok(References(fileGroups, WorkspaceUri)
                              \o streamCommentsWithAnchors(fileGroups, ws))

----------------------------------------------------------------------------
(* Commands, as the strings the code compares *)

NoString == <<>>                     \* undefined or ''

reviewCommandTrigger == <<"/", "s", "e", "l", "f", "-", "r", "e", "v", "i", "e", "w">>
\* Variant: the trigger the help text advertises
descriptionCommandTrigger_Short == <<"/", "w", "r", "i", "t", "e", "-", "d", "e", "s", "c">>

descriptionCommandTrigger == <<"/", "w", "r", "i", "t", "e", "-", "d", "e", "s", "c", "r", "i", "p", "t", "i", "o", "n">>

\* contributes.chatParticipants[0].commands of package.json
DeclaredCommands ==
  {<<"w", "r", "i", "t", "e", "-", "d", "e", "s", "c", "r", "i", "p", "t", "i", "o", "n">>,
   <<"s", "e", "l", "f", "-", "r", "e", "v", "i", "e", "w">>}

\* The commands AVAILABLE_COMMANDS lists, each with the action it advertises
AdvertisedCommands ==
  {[trigger |-> <<"/", "s", "e", "l", "f", "-", "r", "e", "v", "i", "e", "w">>, action |-> "review"],
   [trigger |-> <<"/", "w", "r", "i", "t", "e", "-", "d", "e", "s", "c">>, action |-> "description"],
   [trigger |-> <<"/", "a", "l", "l">>, action |-> "list"]}

TypedCommands ==
  {NoString,
   <<"/", "s", "e", "l", "f", "-", "r", "e", "v", "i", "e", "w">>,
   <<"/", "w", "r", "i", "t", "e", "-", "d", "e", "s", "c", "r", "i", "p", "t", "i", "o", "n">>,
   <<"/", "w", "r", "i", "t", "e", "-", "d", "e", "s", "c">>,
   <<"/", "a", "l", "l">>}
TypedArgs == {NoString, <<"-", "i">>, <<"-", "I">>, <<"-", "-", "i", "n", "c", "l", "u", "d", "e", "-", "f", "i", "l", "e", "s">>, <<"p", "l", "e", "a", "s", "e">>}

\* The host splits the text after @pr: a leading /name that package.json
\* declares becomes request.command, the rest is request.prompt
HostParse(t) ==
  IF Len(t.cmd) > 0 /\ Tail(t.cmd) \in DeclaredCommands
    THEN [command |-> Tail(t.cmd), prompt |-> t.args]
  ELSE [command |-> NoString,
        prompt |-> IF Len(t.cmd) > 0 /\ Len(t.args) > 0 THEN t.cmd \o <<" ">> \o t.args
                   ELSE t.cmd \o t.args]

\* String.prototype.toLowerCase; I is the only upper-case letter of TypedArgs
ToLowerCase(str) == [k \in 1..Len(str) |-> IF str[k] = "I" THEN "i" ELSE str[k]]

parseIncludeFilesFlag(req) ==
  IF Len(req.prompt) = 0 THEN FALSE
  ELSE LET prompt == ToLowerCase(req.prompt)
       IN  Includes(prompt, <<"-", "-", "i", "n", "c", "l", "u", "d", "e", "-", "f", "i", "l", "e", "s">>) \/ Includes(prompt, <<"-", "i">>)

Progress(t) == [type |-> "progress", text |-> t]
Button(title, command, arg) ==
  [type |-> "button", title |-> title, command |-> command, arguments |-> arg]

AVAILABLE_COMMANDS == "AVAILABLE_COMMANDS"

\* The else branch of the chat request handler
UnknownCommandMessage(req) ==
  IF Len(req.command) > 0
    THEN Markdown(<<"Command not recognized. Please use one of the available commands:",
                    AVAILABLE_COMMANDS, req.command>>)
  ELSE Markdown(<<"Please use one of the available commands:", AVAILABLE_COMMANDS>>)

----------------------------------------------------------------------------
(* getDiffWithMainBranch *)

NoError == ""
GIT_ERROR_MESSAGES ==
  [NOT_A_REPO |-> "The current workspace is not a git repository.",
   NO_MAIN_BRANCH |-> "Main branch not found. Please ensure your repository has a main or master branch.",
   GENERIC_GIT_ERROR |-> "Failed to get git diff: "]

MainName == <<"m", "a", "i", "n">>
MasterName == <<"m", "a", "s", "t", "e", "r">>
BranchNames == {MainName, MasterName, <<"d", "o", "m", "a", "i", "n">>}

\* stdout of `git branch -a`: one line per branch
RECURSIVE BranchesOutput(_)
BranchesOutput(bs) ==
  IF bs = {} THEN <<>>
  ELSE LET b == CHOOSE x \in bs : TRUE
       IN  <<" ", " ">> \o b \o <<"\n">> \o BranchesOutput(bs \ {b})

\* branchesOutput.includes('main') ? 'main' : 'master'
SelectMainBranch(branchesOutput) ==
  IF Includes(branchesOutput, MainName) THEN MainName ELSE MasterName

\* The catch branch: the message of the failed git command decides the error
DiffError(errorMessage) ==
  [diff |-> <<>>, mainBranchName |-> NoString,
   error |-> IF errorMessage = "not a git repository" THEN GIT_ERROR_MESSAGES.NOT_A_REPO
             ELSE IF errorMessage = "did not match any" THEN GIT_ERROR_MESSAGES.NO_MAIN_BRANCH
             ELSE GIT_ERROR_MESSAGES.GENERIC_GIT_ERROR \o errorMessage]

\* The diff text: `diff --git a/p b/p` lines, hunks, white space
DiffFile(path) == [kind |-> "file", path |-> path]
DiffHunk == [kind |-> "hunk", path |-> NoFile]
DiffSpace == [kind |-> "space", path |-> NoFile]
Diffs ==
  {<<>>, <<DiffSpace>>, <<DiffFile(<<"a.ts">>), DiffHunk>>,
   <<DiffFile(<<"a.ts">>), DiffHunk, DiffFile(<<"README">>), DiffHunk>>}

\* diff.trim() is the empty string
TrimIsEmpty(diff) == \A k \in 1..Len(diff) : diff[k].kind = "space"

NoDiff == [diff |-> <<>>, mainBranchName |-> NoString, error |-> NoError]

\* The b/ paths of the diff, first occurrence first
RECURSIVE DiffPaths(_, _)
DiffPaths(diff, seen) ==
  IF Len(diff) = 0 THEN <<>>
  ELSE LET d == Head(diff)
       IN  IF d.kind = "file" /\ d.path \notin seen
             THEN <<d.path>> \o DiffPaths(Tail(diff), seen \cup {d.path})
           ELSE DiffPaths(Tail(diff), seen)

\* getChangedFilesContent: the changed files that exist, with their content
RECURSIVE ReadFiles(_, _)
ReadFiles(paths, existing) ==
  IF Len(paths) = 0 THEN <<>>
  ELSE IF Head(paths) \in existing
    THEN <<[path |-> Head(paths), content |-> <<"content of", Head(paths)>>]>>
           \o ReadFiles(Tail(paths), existing)
  ELSE ReadFiles(Tail(paths), existing)

getChangedFilesContent(gitDiff, existing) == ReadFiles(DiffPaths(gitDiff, {}), existing)

DiffFilePaths == {<<"a.ts">>, <<"README">>}

----------------------------------------------------------------------------
(* Model selection and prompts *)

COPILOT_ERROR_MESSAGES ==
  [NO_MODEL |-> "No suitable language model found for code review",
   CANCELLED |-> "Operation cancelled by user",
   UNKNOWN |-> "An unknown error occurred during code review"]

Gpt4o == [vendor |-> "copilot", family |-> "gpt-4o"]
OtherCopilotModel == [vendor |-> "copilot", family |-> "claude-3.5-sonnet"]
HostModels == {Gpt4o, OtherCopilotModel}
NoModel == [vendor |-> "", family |-> ""]

\* vscode.lm.selectChatModels(selector): the models matching every field
selectChatModels(available, selector) ==
  {m \in available : m.vendor = selector.vendor /\ m.family = selector.family}

\* selectChatModel after its cancellation check: models[0] or undefined
selectChatModel(available) ==
  LET found == selectChatModels(available, [vendor |-> "copilot", family |-> "gpt-4o"])
  IN  IF found = {} THEN NoModel ELSE CHOOSE m \in found : TRUE

CustomPrompts == {"", "Focus on security."}
DEFAULT_PROMPT == "DEFAULT_PROMPT"
PR_DEFAULT_PROMPT == "PR_DEFAULT_PROMPT"

PromptText(t) == [kind |-> "text", lang |-> "", body |-> t]
PromptFence(lang, body) == [kind |-> "fence", lang |-> lang, body |-> body]

getLanguageFromFilePath(filePath) ==
  IF LastSegment(filePath) = "a.ts" THEN "typescript" ELSE "text"

RECURSIVE FileContext(_)
FileContext(filesEntries) ==
  IF Len(filesEntries) = 0 THEN <<>>
  ELSE LET f == Head(filesEntries)
       IN  <<PromptText(<<"\n\n">>), PromptText(<<"### ", f.path>>),
             PromptFence(getLanguageFromFilePath(f.path), f.content)>>
             \o FileContext(Tail(filesEntries))

\* Variant: the custom prompt is appended to the default prompt
CodeReviewPrompt_Appended(props) ==
  <<PromptText(<<DEFAULT_PROMPT>>), PromptText(<<props.customPrompt>>),
    PromptFence(props.language, props.selectedCode)>>
    \o (IF Len(props.files) > 0
          THEN <<PromptText(<<"\n\n">>), PromptText(<<"## Additional Context Files">>)>>
                 \o FileContext(props.files)
        ELSE <<>>)

\* CodeReviewPrompt.render: the parts of the user message, in order
CodeReviewPrompt(props) ==
  <<PromptText(<<IF props.customPrompt # "" THEN props.customPrompt ELSE DEFAULT_PROMPT>>),
    PromptFence(props.language, props.selectedCode)>>
    \o (IF Len(props.files) > 0
          THEN <<PromptText(<<"\n\n">>), PromptText(<<"## Additional Context Files">>)>>
                 \o FileContext(props.files)
        ELSE <<>>)

\* PRDescriptionPrompt.render; generatePRDescriptionWithCopilot passes no customPrompt
PRDescriptionPrompt(props) ==
  <<PromptText(<<PR_DEFAULT_PROMPT>>),
    PromptFence("markdown", props.prTemplate),
    PromptFence("diff", props.gitDiff),
    PromptText(<<"Please generate a PR description following the template structure above.">>)>>

\* Responses of the language model, line by line
ChatReviews ==
  {<<>>,
   <<TextLine(NoFile)>>,
   <<Heading(<<"a.ts">>), Bullet(NoFile, <<1>>)>>,
   <<Heading(<<"a.ts">>), Bullet(NoFile, NoRef)>>}

----------------------------------------------------------------------------
(* Values before the first call *)

\* createErrorResponse
createErrorResponse(errorMessage) == [content |-> <<>>, error |-> errorMessage]

\* No model call has returned to the command handler yet
NoResponse == [content |-> <<>>, error |-> "(no response)"]

\* provideCompletionItems has not been called
NotAsked == [kind |-> "not asked", items |-> <<>>]

NoOptions == [name |-> "", commandKey |-> "", commandTrigger |-> <<>>]

CompletionIdle ==
  /\ linePrefix = <<>>
  /\ completionItems = NotAsked

\* The static fields of Logger before Logger.initialize
LoggerIdle ==
  /\ outputChannel = FALSE
  /\ debugMode = FALSE
  /\ enableDebugLogging = FALSE
  /\ channelLines = <<>>
  /\ consoleLines = <<>>
  /\ logCalls = <<>>

PaletteIdle ==
  /\ commandOptions = NoOptions
  /\ executed = <<>>
  /\ notifications = <<>>
  /\ runs = 0

\* A thrown value: an Error with its message, or something that is not an Error
Err(message) == [isError |-> TRUE, message |-> message]
NonError(value) == [isError |-> FALSE, message |-> value]

\* handlerFn has not been awaited
NotSettled == [kind |-> "none", error |-> NonError(""), events |-> <<>>, value |-> <<>>]

ParticipantIdle == settled = NotSettled

----------------------------------------------------------------------------
(* The chat request handler and the two command handlers, one action per    *)
(* stretch of code between two awaits.                                      *)

NoResult == <<>>                     \* the handler returned undefined
NoTemplate == <<>>

GitCall(command, ref) == [command |-> command, ref |-> ref]

CurrentHandler == IF Len(handlers) = 0 THEN "none" ELSE handlers[Len(handlers)]

\* The handler returns: events written on the way, value returned
Finish(events, res) ==
  /\ stream' = stream \o events
  /\ pc' = "done"
  /\ result' = res

\* The handler reaches its next await
Continue(events, next) ==
  /\ stream' = stream \o events
  /\ pc' = next
  /\ result' = result

Init ==
  /\ review = <<>>
  /\ workspaceFolders = FALSE
  /\ stream = <<>>
  /\ thrown = FALSE
  /\ pc = "idle"
  /\ typed = [cmd |-> NoString, args |-> NoString]
  /\ request = [command |-> NoString, prompt |-> NoString]
  /\ handlers = <<>>
  /\ includeFiles = FALSE
  /\ branches = {}
  /\ gitCalls = <<>>
  /\ mainBranchName = NoString
  /\ diffResult = NoDiff
  /\ prTemplate = NoTemplate
  /\ existingFiles = {}
  /\ changedFiles = <<>>
  /\ customPrompt = ""
  /\ models = {}
  /\ model = NoModel
  /\ lmRequests = <<>>
  /\ pending = <<>>
  /\ token = FALSE
  /\ result = NoResult
  /\ registered = FALSE
  /\ requests = 0
  /\ response = NoResponse
  /\ CompletionIdle
  /\ LoggerIdle
  /\ PaletteIdle
  /\ ParticipantIdle

\* A request arrives: registerChatParticipants' handler dispatches on
\* request.command and the chosen command handler runs up to its first await
Request(t, ws) ==
  /\ pc \in {"idle", "done"}
  /\ requests < MaxRequests
  /\ requests' = requests + 1
  /\ typed' = t
  /\ request' = HostParse(t)
  /\ workspaceFolders' = ws
  /\ token' = FALSE
  /\ thrown' = FALSE
  /\ review' = <<>>
  /\ pending' = <<>>
  /\ branches' = {}
  /\ gitCalls' = <<>>
  /\ mainBranchName' = NoString
  /\ diffResult' = NoDiff
  /\ prTemplate' = NoTemplate
  /\ existingFiles' = {}
  /\ changedFiles' = <<>>
  /\ customPrompt' = ""
  /\ models' = {}
  /\ model' = NoModel
  /\ lmRequests' = <<>>
  /\ result' = NoResult
  /\ response' = NoResponse
  /\ UNCHANGED <<registered, extVars>>
  /\ LET req == HostParse(t)
     IN  IF req.command = ReplaceFirst(reviewCommandTrigger, "/")
           THEN /\ handlers' = <<"handleReviewCodeCommand">>
                /\ includeFiles' = parseIncludeFilesFlag(req)
                /\ IF ~ws
                     THEN /\ stream' = <<Markdown(<<"Please open a workspace folder to review code differences.">>)>>
                          /\ pc' = "done"
                   ELSE /\ stream' = <<Progress("Analyzing code differences with main branch...")>>
                        /\ pc' = "gitBranch"
         ELSE IF req.command = ReplaceFirst(descriptionCommandTrigger, "/")
           THEN /\ handlers' = <<"handleDescriptionCommand">>
                /\ includeFiles' = FALSE
                /\ IF ~ws
                     THEN /\ stream' = <<Markdown(<<"Please open a workspace folder to generate a PR description.">>)>>
                          /\ pc' = "done"
                   ELSE /\ stream' = <<Progress("Analyzing code differences with main branch...")>>
                        /\ pc' = "gitBranch"
         ELSE /\ handlers' = <<>>
              /\ includeFiles' = FALSE
              /\ stream' = <<UnknownCommandMessage(req)>>
              /\ pc' = "done"

\* Variant: generateCodeReview does not look at the token after the model call
ReviewCancelled_Ignored(tok) == FALSE

\* if (token.isCancellationRequested) return false, after sendRequestToModel
\* in generateCodeReview
ReviewCancelled(tok) == tok

\* Variant: handleDescriptionCommand does not look at the token
DescriptionCancelled_Ignored(tok) == FALSE

\* if (token.isCancellationRequested) return, after
\* generatePRDescriptionWithCopilot in handleDescriptionCommand
DescriptionCancelled(tok) == tok

\* handleReviewCodeCommand from the return of getDiffWithMainBranch to the
\* await of selectChatModels inside generateCodeReview
ReviewAfterDiff(dr, existing, cp) ==
  IF TrimIsEmpty(dr.diff)
    THEN /\ Finish(<<Markdown(<<"No code changes detected compared to the main branch.">>)>>, NoResult)
         /\ UNCHANGED <<existingFiles, changedFiles, customPrompt>>
  ELSE LET events ==
             <<IF includeFiles
                 THEN Progress("Collecting changed files content for context...")
               ELSE Progress("Skipping changed files content collection"),
               Progress("Analyzing differences...")>>
       IN  /\ existingFiles' = existing
           /\ changedFiles' = IF includeFiles THEN getChangedFilesContent(dr.diff, existing)
                              ELSE <<>>
           /\ customPrompt' = cp
           /\ IF token THEN Finish(events, NoResult)
              ELSE Continue(events, "selectModel")

Tickets == {"UNKNOWN", "ABC-123"}

\* handleDescriptionCommand from the return of getDiffWithMainBranch to the
\* await of selectChatModels inside generatePRDescriptionWithCopilot;
\* getJiraTicketNumber runs `git rev-parse --abbrev-ref HEAD`
DescriptionAfterDiff(dr, calls, templateExists, ticket) ==
  IF TrimIsEmpty(dr.diff)
    THEN /\ Finish(<<Markdown(<<"No code changes detected compared to the main branch.">>)>>, NoResult)
         /\ gitCalls' = calls
         /\ UNCHANGED <<prTemplate, response>>
  ELSE IF ~templateExists
    THEN /\ Finish(<<Progress("Fetching PR template..."),
                     Markdown(<<"#### Missing PR Template">>)>>, NoResult)
         /\ gitCalls' = calls
         /\ UNCHANGED <<prTemplate, response>>
  ELSE LET events == <<Progress("Fetching PR template..."),
                       Progress("Generating PR description...")>>
           cancelled == createErrorResponse(COPILOT_ERROR_MESSAGES.CANCELLED)
       IN  /\ gitCalls' = Append(calls, GitCall("rev-parse --abbrev-ref", <<"HEAD">>))
           /\ prTemplate' = <<"pull_request_template.md", ticket>>
           /\ IF token
                THEN \* generatePRDescriptionWithCopilot returns CANCELLED at once
                     /\ response' = cancelled
                     /\ IF DescriptionCancelled(token) THEN Finish(events, NoResult)
                        ELSE Finish(events \o <<Markdown(<<"PR description generation failed: ",
                                                           cancelled.error>>)>>, NoResult)
              ELSE /\ Continue(events, "selectModel")
                   /\ UNCHANGED response

AfterDiff(dr, calls, existing, cp, templateExists, ticket) ==
  IF CurrentHandler = "handleReviewCodeCommand"
    THEN /\ ReviewAfterDiff(dr, existing, cp)
         /\ gitCalls' = calls
         /\ UNCHANGED <<prTemplate, response>>
  ELSE /\ DescriptionAfterDiff(dr, calls, templateExists, ticket)
       /\ UNCHANGED <<existingFiles, changedFiles, customPrompt>>

\* getDiffWithMainBranch, first half: `git branch -a` completes
GitBranch(outcome, bs) ==
  /\ pc = "gitBranch"
  /\ LET calls == Append(gitCalls, GitCall("branch -a", NoString))
     IN  IF outcome = "ok"
           THEN /\ branches' = bs
                /\ mainBranchName' = SelectMainBranch(BranchesOutput(bs))
                /\ gitCalls' = calls
                /\ pc' = "gitDiff"
                /\ UNCHANGED <<diffResult, stream, result, existingFiles, changedFiles,
                               customPrompt, prTemplate, response>>
         ELSE /\ bs = {}
              /\ diffResult' = DiffError(outcome)
              /\ AfterDiff(DiffError(outcome), calls, {}, "", FALSE, "UNKNOWN")
              /\ UNCHANGED <<branches, mainBranchName>>
  /\ UNCHANGED <<review, workspaceFolders, thrown, typed, request, handlers, includeFiles,
                 models, model, lmRequests, pending, token, registered, requests, extVars>>

\* getDiffWithMainBranch, second half: `git diff <mainBranchName>` completes,
\* and the command handler runs on to its next await
GitDiff(d, existing, cp, templateExists, ticket) ==
  /\ pc = "gitDiff"
  /\ LET calls == Append(gitCalls, GitCall("diff", mainBranchName))
         dr == IF mainBranchName \in branches
                 THEN [diff |-> d, mainBranchName |-> mainBranchName, error |-> NoError]
               ELSE DiffError("unknown revision or path not in the working tree")
     IN  /\ mainBranchName \notin branches => d = <<>>
         /\ diffResult' = dr
         /\ AfterDiff(dr, calls, existing, cp, templateExists, ticket)
  /\ UNCHANGED <<review, workspaceFolders, thrown, typed, request, handlers, includeFiles,
                 branches, mainBranchName, models, model, lmRequests, pending, token,
                 registered, requests, extVars>>

\* selectChatModel resumes with the models the host found
SelectModel(available) ==
  /\ pc = "selectModel"
  /\ models' = available
  /\ model' = selectChatModel(available)
  /\ IF selectChatModel(available) = NoModel
       THEN IF CurrentHandler = "handleReviewCodeCommand"
              THEN /\ Finish(<<Markdown(<<COPILOT_ERROR_MESSAGES.NO_MODEL>>)>>, NoResult)
                   /\ UNCHANGED response
            ELSE /\ response' = createErrorResponse(COPILOT_ERROR_MESSAGES.NO_MODEL)
                 /\ IF DescriptionCancelled(token) THEN Finish(<<>>, NoResult)
                    ELSE Finish(<<Markdown(<<"PR description generation failed: ",
                                             COPILOT_ERROR_MESSAGES.NO_MODEL>>)>>, NoResult)
     ELSE /\ Continue(<<>>, "render")
          /\ UNCHANGED response
  /\ UNCHANGED <<review, workspaceFolders, thrown, typed, request, handlers, includeFiles,
                 branches, gitCalls, mainBranchName, diffResult, prTemplate, existingFiles,
                 changedFiles, customPrompt, lmRequests, pending, token, registered, requests,
                 extVars>>

\* createPromptMessages
PromptMessages ==
  IF CurrentHandler = "handleReviewCodeCommand"
    THEN CodeReviewPrompt([customPrompt |-> customPrompt, selectedCode |-> diffResult.diff,
                           language |-> "diff", files |-> changedFiles])
  ELSE PRDescriptionPrompt([gitDiff |-> diffResult.diff, prTemplate |-> prTemplate])

CopyNote == "You can copy this description and use it for your pull request."

\* handleDescriptionCommand writes the description it received
ModelDescription(resp) ==
  LET written == <<Markdown(<<"## Generated PR Description", resp.content>>),
                   Markdown(<<CopyNote>>),
                   Button("Copy to Clipboard", "copilot-code-review.copyToClipboard",
                          resp.content)>>
  IN  \* vscode.commands.registerCommand throws when the command exists
      /\ registered' = TRUE
      /\ IF registered
           THEN Finish(written \o <<Markdown(<<"An error occurred while generating the PR description">>)>>,
                       NoResult)
         ELSE Finish(written, NoResult)

\* The command handler after sendRequestToModel (or the helper around it)
\* returned resp = [content, error]
ModelFinished(resp) ==
  /\ response' = resp
  /\ IF CurrentHandler = "handleReviewCodeCommand"
       THEN /\ UNCHANGED registered
            /\ IF ReviewCancelled(token) THEN Finish(<<>>, NoResult)
               ELSE IF resp.error # NoError
                 THEN Finish(<<Markdown(<<"Code review failed: ", resp.error>>)>>, NoResult)
               ELSE LET r == streamCodeReview(resp.content, workspaceFolders)
                    IN  IF r.threw
                          THEN Finish(r.out \o <<Markdown(<<"An error occurred during code review">>)>>,
                                      NoResult)
                        ELSE \* handleReviewCodeCommand checks the token again
                             Finish(r.out, IF token THEN NoResult
                                           ELSE <<WorkspaceUri, diffResult.mainBranchName>>)
     ELSE IF DescriptionCancelled(token)
       THEN Finish(<<>>, NoResult) /\ UNCHANGED registered
     ELSE IF resp.error # NoError
       THEN /\ UNCHANGED registered
            /\ Finish(<<Markdown(<<"PR description generation failed: ", resp.error>>)>>, NoResult)
     ELSE ModelDescription(resp)

\* renderPrompt resumes; sendRequestToModel checks the token and sends
Render ==
  /\ pc = "render"
  /\ IF token
       THEN /\ ModelFinished(createErrorResponse(COPILOT_ERROR_MESSAGES.CANCELLED))
            /\ UNCHANGED lmRequests
     ELSE /\ lmRequests' = Append(lmRequests, [model |-> model, messages |-> PromptMessages])
          /\ Continue(<<>>, "send")
          /\ UNCHANGED <<registered, response>>
  /\ UNCHANGED <<review, workspaceFolders, thrown, typed, request, handlers, includeFiles,
                 branches, gitCalls, mainBranchName, diffResult, prTemplate, existingFiles,
                 changedFiles, customPrompt, models, model, pending, token, requests, extVars>>

\* model.sendRequest resolves with the response stream, or rejects
Send(outcome, resp) ==
  /\ pc = "send"
  /\ IF outcome = "ok"
       THEN /\ pending' = resp
            /\ Continue(<<>>, "fragments")
            /\ UNCHANGED <<registered, response>>
     ELSE /\ resp = <<>>
          /\ ModelFinished(createErrorResponse(outcome))
          /\ UNCHANGED pending
  /\ UNCHANGED <<review, workspaceFolders, thrown, typed, request, handlers, includeFiles,
                 branches, gitCalls, mainBranchName, diffResult, prTemplate, existingFiles,
                 changedFiles, customPrompt, models, model, lmRequests, token, requests,
                 extVars>>

\* One fragment of chatResponse.text arrives
Fragment ==
  /\ pc = "fragments"
  /\ Len(pending) > 0
  /\ IF token
       THEN /\ ModelFinished(createErrorResponse(COPILOT_ERROR_MESSAGES.CANCELLED))
            /\ UNCHANGED <<review, pending>>
     ELSE /\ review' = Append(review, Head(pending))
          /\ pending' = Tail(pending)
          /\ UNCHANGED <<stream, pc, result, registered, response>>
  /\ UNCHANGED <<workspaceFolders, thrown, typed, request, handlers, includeFiles,
                 branches, gitCalls, mainBranchName, diffResult, prTemplate, existingFiles,
                 changedFiles, customPrompt, models, model, lmRequests, token, requests,
                 extVars>>

\* chatResponse.text ends: sendRequestToModel returns the collected content
ResponseEnd ==
  /\ pc = "fragments"
  /\ Len(pending) = 0
  /\ ModelFinished([content |-> review, error |-> NoError])
  /\ UNCHANGED <<review, workspaceFolders, thrown, typed, request, handlers, includeFiles,
                 branches, gitCalls, mainBranchName, diffResult, prTemplate, existingFiles,
                 changedFiles, customPrompt, models, model, lmRequests, pending, token, requests,
                 extVars>>

\* The user cancels the running request
Cancel ==
  /\ pc \notin {"idle", "done"}
  /\ ~token
  /\ token' = TRUE
  /\ UNCHANGED <<streamVars, typed, request, handlers, includeFiles, branches, gitCalls,
                 mainBranchName, diffResult, prTemplate, existingFiles, changedFiles,
                 customPrompt, models,
                 model, lmRequests, pending, result, registered, requests, response, extVars>>

Typed == [cmd : TypedCommands, args : TypedArgs]
GitOutcomes == {"ok", "not a git repository", "spawn git ENOENT"}
SendOutcomes == {"ok", "Request failed"}

Next ==
  \/ \E t \in Typed, ws \in BOOLEAN : Request(t, ws)
  \/ \E outcome \in GitOutcomes, bs \in SUBSET BranchNames : GitBranch(outcome, bs)
  \/ \E d \in Diffs, existing \in SUBSET DiffFilePaths, cp \in CustomPrompts,
        templateExists \in BOOLEAN, ticket \in Tickets :
       GitDiff(d, existing, cp, templateExists, ticket)
  \/ \E available \in SUBSET HostModels : SelectModel(available)
  \/ Render
  \/ \E outcome \in SendOutcomes, resp \in ChatReviews : Send(outcome, resp)
  \/ Fragment
  \/ ResponseEnd
  \/ Cancel

Spec == Init /\ [][Next]_vars

----------------------------------------------------------------------------
(* Specification of streamCodeReview on its own: every review text of up to *)
(* MaxLines lines, with and without an open workspace folder.              *)

InitStream ==
  /\ review \in Reviews
  /\ workspaceFolders \in BOOLEAN
  /\ stream = <<>>
  /\ thrown = FALSE
  /\ pc = "start"
  /\ typed = [cmd |-> NoString, args |-> NoString]
  /\ request = [command |-> NoString, prompt |-> NoString]
  /\ handlers = <<>>
  /\ includeFiles = FALSE
  /\ branches = {}
  /\ gitCalls = <<>>
  /\ mainBranchName = NoString
  /\ diffResult = NoDiff
  /\ prTemplate = NoTemplate
  /\ existingFiles = {}
  /\ changedFiles = <<>>
  /\ customPrompt = ""
  /\ models = {}
  /\ model = NoModel
  /\ lmRequests = <<>>
  /\ pending = <<>>
  /\ token = FALSE
  /\ result = NoResult
  /\ registered = FALSE
  /\ requests = 0
  /\ response = NoResponse
  /\ CompletionIdle
  /\ LoggerIdle
  /\ PaletteIdle
  /\ ParticipantIdle

StreamCodeReviewCall ==
  /\ pc = "start"
  /\ LET r == streamCodeReview(review, workspaceFolders)
     IN  /\ stream' = stream \o r.out
         /\ thrown' = r.threw
  /\ pc' = "done"
  /\ UNCHANGED <<review, workspaceFolders, chatVars, extVars>>

NextStream == StreamCodeReviewCall

SpecStream == InitStream /\ [][NextStream]_vars

----------------------------------------------------------------------------
(* CommandCompletionProvider: completions in the chat input *)

MaxSpaces == 2    \* spaces typed between @pr and the text that follows

\* The stream and chat variables of a session in which no request was made
StreamIdle ==
  /\ review = <<>>
  /\ workspaceFolders = FALSE
  /\ stream = <<>>
  /\ thrown = FALSE

ChatIdle ==
  /\ typed = [cmd |-> NoString, args |-> NoString]
  /\ request = [command |-> NoString, prompt |-> NoString]
  /\ handlers = <<>>
  /\ includeFiles = FALSE
  /\ branches = {}
  /\ gitCalls = <<>>
  /\ mainBranchName = NoString
  /\ diffResult = NoDiff
  /\ prTemplate = NoTemplate
  /\ existingFiles = {}
  /\ changedFiles = <<>>
  /\ customPrompt = ""
  /\ models = {}
  /\ model = NoModel
  /\ lmRequests = <<>>
  /\ pending = <<>>
  /\ token = FALSE
  /\ result = NoResult
  /\ registered = FALSE
  /\ requests = 0
  /\ response = NoResponse

\* reviewCodeCommandOptions and descriptionCommandOptions
ReviewOptions ==
  [name |-> "review code", commandKey |-> "copilot-code-review.review",
   commandTrigger |-> reviewCommandTrigger]
DescriptionOptions ==
  [name |-> "description", commandKey |-> "copilot-code-review.description",
   commandTrigger |-> descriptionCommandTrigger]

\* availableCommands of the extension, handed to the provider's constructor
availableCommands == <<ReviewOptions, DescriptionOptions>>

Participant == <<"@", "p", "r">>

\* String.prototype.lastIndexOf, zero-based, -1 when absent
LastIndexOf(hay, needle) ==
  LET at == {i \in 0..(Len(hay) - Len(needle)) :
               \A j \in 1..Len(needle) : hay[i + j] = needle[j]}
  IN  IF at = {} THEN -1 ELSE CHOOSE i \in at : \A k \in at : k <= i

\* String.prototype.substring(start)
Substring(s, start) == SubSeq(s, start + 1, Len(s))

\* String.prototype.trim; the space is the only white space of the inputs
Trim(s) ==
  LET ns == {i \in 1..Len(s) : s[i] # " "}
  IN  IF ns = {} THEN <<>>
      ELSE SubSeq(s, CHOOSE i \in ns : \A k \in ns : i <= k,
                     CHOOSE i \in ns : \A k \in ns : k <= i)

\* String.prototype.endsWith
EndsWith(s, suffix) ==
  /\ Len(suffix) <= Len(s)
  /\ SubSeq(s, Len(s) - Len(suffix) + 1, Len(s)) = suffix

CompletionItem(label, kind) == [label |-> label, kind |-> kind]
Undefined == [kind |-> "undefined", items |-> <<>>]
Items(items) == [kind |-> "items", items |-> items]

IncludeFilesFlag == <<"-", "-", "i", "n", "c", "l", "u", "d", "e", "-", "f", "i", "l", "e", "s">>
ShortFlag == <<"-", "i">>

provideFlagCompletions(prefix) ==
  LET flags == <<IncludeFilesFlag, ShortFlag>>
      Matches(f) == StartsWith(f, prefix) \/ prefix = <<>>
      kept == SelectSeq(flags, Matches)
  IN  [i \in 1..Len(kept) |-> CompletionItem(kept[i], "Property")]

provideCompletionItems(lp) ==
  IF ~Includes(lp, Participant) THEN Undefined
  ELSE LET prIndex == LastIndexOf(lp, Participant)
           textAfterPr == Substring(lp, prIndex + 3)
       IN  IF Len(textAfterPr) > 0 /\ ~StartsWith(textAfterPr, <<" ">>) THEN Undefined
           ELSE LET commandPrefix == Trim(textAfterPr)
                    afterCommand == Trim(Substring(commandPrefix, Len(reviewCommandTrigger)))
                    Matches(cmd) == StartsWith(cmd.commandTrigger, commandPrefix)
                                      \/ commandPrefix = <<>>
                    kept == SelectSeq(availableCommands, Matches)
                IN  IF /\ StartsWith(commandPrefix, reviewCommandTrigger)
                       /\ (afterCommand = <<>> \/ EndsWith(afterCommand, <<" ">>))
                      THEN Items(provideFlagCompletions(<<>>))
                    ELSE IF /\ StartsWith(commandPrefix, reviewCommandTrigger)
                            /\ StartsWith(afterCommand, <<"-">>)
                      THEN Items(provideFlagCompletions(afterCommand))
                    ELSE Items([i \in 1..Len(kept) |->
                                  CompletionItem(kept[i].commandTrigger, "Method")])

\* What the user has typed after the participant
Prefixes(t) == {SubSeq(t, 1, n) : n \in 0..Len(t)}
FlagTexts ==
  {<<" ">>, <<" ", "-">>, <<" ", "-", "i">>, <<" ", "-", "-">>, <<" ", "x">>, <<"x">>}
TypedTexts ==
  Prefixes(reviewCommandTrigger) \cup Prefixes(descriptionCommandTrigger)
    \cup {reviewCommandTrigger \o f : f \in FlagTexts}
    \cup {<<"/", "x">>}
Leads == {<<>>, <<"h", "i", " ">>}
Mentions == {Participant, <<"@", "p">>}
Spaces(n) == [i \in 1..n |-> " "]
LinePrefixes ==
  {lead \o mention \o Spaces(n) \o t :
     lead \in Leads, mention \in Mentions, n \in 0..MaxSpaces, t \in TypedTexts}

InitCompletion ==
  /\ pc = "start"
  /\ StreamIdle
  /\ ChatIdle
  /\ linePrefix \in LinePrefixes
  /\ completionItems = NotAsked
  /\ LoggerIdle
  /\ PaletteIdle
  /\ ParticipantIdle

ProvideCompletionItemsCall ==
  /\ pc = "start"
  /\ completionItems' = provideCompletionItems(linePrefix)
  /\ pc' = "done"
  /\ UNCHANGED <<review, workspaceFolders, stream, thrown, chatVars, linePrefix,
                 loggerVars, paletteVars, participantVars>>

NextCompletion == ProvideCompletionItemsCall

SpecCompletion == InitCompletion /\ [][NextCompletion]_vars

----------------------------------------------------------------------------
(* registerCommand: a chat participant around a handler function *)

\* Variant: the catch writes the message alone, as the command handlers' own
\* catch does
handleUnexpectedError_MessageOnly(error) ==
  <<Markdown(<<IF error.isError THEN error.message ELSE "Unknown error occurred">>)>>

handleUnexpectedError(error) ==
  <<Markdown(<<"An unexpected error occurred: ",
               IF error.isError THEN error.message ELSE "Unknown error">>)>>

\* request.prompt.match(/@pr\s+(\S+)/i): the word after the first @pr that is
\* followed by white space and a word; empty when there is no match
AttemptedCommand(p) ==
  LET starts == {i \in 0..(Len(p) - 5) :
                   /\ SubSeq(p, i + 1, i + 3) = Participant
                   /\ p[i + 4] = " "
                   /\ \E j \in (i + 5)..Len(p) : p[j] # " "}
  IN  IF starts = {} THEN <<>>
      ELSE LET i == CHOOSE x \in starts : \A y \in starts : x <= y
               word == {k \in (i + 5)..Len(p) : p[k] # " "}
               j == CHOOSE x \in word : \A y \in word : x <= y
               run == {k \in j..Len(p) : \A m \in j..k : p[m] # " "}
               e == CHOOSE x \in run : \A y \in run : y <= x
           IN  SubSeq(p, j, e)

\* handleCommandChecks: whether the handler may run, and what was written
handleCommandChecks(req, commandTrigger) ==
  IF Includes(req.prompt, <<"/", "a", "l", "l">>)
    THEN [ok |-> FALSE, out |-> <<Markdown(<<AVAILABLE_COMMANDS>>)>>]
  ELSE IF Trim(req.prompt) = Participant
    THEN [ok |-> FALSE,
          out |-> <<Markdown(<<"# Welcome to Copilot Code Review", AVAILABLE_COMMANDS>>)>>]
  ELSE IF ~Includes(req.prompt, commandTrigger)
    THEN LET attemptedCommand == AttemptedCommand(req.prompt)
         IN  IF Len(attemptedCommand) > 0
               THEN [ok |-> FALSE,
                     out |-> <<Markdown(<<"Command not recognized. Please use one of the available commands:",
                                          AVAILABLE_COMMANDS, attemptedCommand>>)>>]
             ELSE [ok |-> FALSE,
                   out |-> <<Markdown(<<"Please use the trigger to execute this command or /all to see all available commands.",
                                        commandTrigger>>)>>]
  ELSE [ok |-> TRUE, out |-> <<>>]

Prompts ==
  {<<>>, 
   <<"@", "p", "r">>, 
   <<"/", "a", "l", "l">>, 
   <<"@", "p", "r", " ", "/", "f", "o", "o">>, 
   <<"@", "p", "r", " ", "/", "s", "e", "l", "f", "-", "r", "e", "v", "i", "e", "w">>, 
   <<"/", "s", "e", "l", "f", "-", "r", "e", "v", "i", "e", "w", " ", "-", "i">>, 
   <<"@", "p", "r", " ", "/", "w", "r", "i", "t", "e", "-", "d", "e", "s", "c", "r", "i", "p", "t", "i", "o", "n">>, 
   <<"h", "e", "l", "l", "o">>,
   <<"/", "w", "r", "i", "t", "e", "-", "d", "e", "s", "c", "r", "i", "p", "t", "i", "o", "n">>,
   <<"@", "p", "r", " ", " ", "/", "s", "e", "l", "f", "-", "r", "e", "v", "i", "e", "w">>}

\* What the handler function does while it is awaited: the events it writes,
\* then a return or a throw
Returned(events, value) == [kind |-> "return", error |-> NonError(""), events |-> events, value |-> value]
Threw(events, error) == [kind |-> "throw", error |-> error, events |-> events, value |-> <<>>]
ThrownValues == {Err("boom"), Err(""), NonError("a string"), NonError("")}
HandlerEvents == {<<>>, <<Markdown(<<"partial output">>)>>}
HandlerBehaviours ==
  {Returned(events, value) : events \in HandlerEvents, value \in {<<>>, <<"metadata">>}}
    \cup {Threw(events, error) : events \in HandlerEvents, error \in ThrownValues}

InitParticipant ==
  /\ pc = "idle"
  /\ StreamIdle
  /\ ChatIdle
  /\ CompletionIdle
  /\ LoggerIdle
  /\ PaletteIdle
  /\ ParticipantIdle

\* The handler registerCommand creates is called: the command checks run, and
\* when they pass the handler function is called and awaited
ParticipantRequest(options, prompt) ==
  /\ pc \in {"idle", "done"}
  /\ requests < MaxRequests
  /\ requests' = requests + 1
  /\ commandOptions' = options
  /\ request' = [command |-> NoString, prompt |-> prompt]
  /\ settled' = NotSettled
  /\ result' = NoResult
  /\ thrown' = FALSE
  /\ LET checks == handleCommandChecks([command |-> NoString, prompt |-> prompt],
                                       options.commandTrigger)
     IN  /\ stream' = checks.out
         /\ handlers' = IF checks.ok THEN <<"handlerFn">> ELSE <<>>
         /\ pc' = IF checks.ok THEN "handler" ELSE "done"
  /\ UNCHANGED <<review, workspaceFolders, typed, includeFiles, branches, gitCalls,
                 mainBranchName, diffResult, prTemplate, existingFiles, changedFiles,
                 customPrompt, models, model, lmRequests, pending, token, registered,
                 response, completionVars, loggerVars, executed, notifications, runs>>

\* The awaited handler function settles: its return value is returned, its
\* exception goes to handleUnexpectedError
HandlerSettles(behaviour) ==
  /\ pc = "handler"
  /\ settled' = behaviour
  /\ IF behaviour.kind = "throw"
       THEN /\ stream' = stream \o behaviour.events \o handleUnexpectedError(behaviour.error)
            /\ result' = NoResult
     ELSE /\ stream' = stream \o behaviour.events
          /\ result' = behaviour.value
  /\ thrown' = FALSE
  /\ pc' = "done"
  /\ UNCHANGED <<review, workspaceFolders, typed, request, handlers, includeFiles, branches,
                 gitCalls, mainBranchName, diffResult, prTemplate, existingFiles,
                 changedFiles, customPrompt, models, model, lmRequests, pending, token,
                 registered, requests, response, completionVars, loggerVars, paletteVars>>

NextParticipant ==
  \/ \E options \in {ReviewOptions, DescriptionOptions}, prompt \in Prompts :
       ParticipantRequest(options, prompt)
  \/ \E behaviour \in HandlerBehaviours : HandlerSettles(behaviour)

SpecParticipant == InitParticipant /\ [][NextParticipant]_vars

----------------------------------------------------------------------------
(* Logger *)

MaxLogCalls == 2  \* calls of Logger.debug / info / warn / error by the extension

LogLevel == [DEBUG |-> "DEBUG", INFO |-> "INFO", WARN |-> "WARN", ERROR |-> "ERROR"]
LogLevels == {LogLevel.DEBUG, LogLevel.INFO, LogLevel.WARN, LogLevel.ERROR}

\* The optional second argument of the logging methods
NoData == [kind |-> "undefined", text |-> ""]
DataValues ==
  {NoData,
   [kind |-> "falsy", text |-> "0"],
   [kind |-> "string", text |-> "details"],
   [kind |-> "Error", text |-> "boom"],
   [kind |-> "object", text |-> "{}"],
   [kind |-> "circular object", text |-> ""]}

\* if (data)
Truthy(data) == data.kind \notin {"undefined", "falsy"}

\* What Logger.log adds to the message for its data argument
DataSuffix(data) ==
  IF ~Truthy(data) THEN <<>>
  ELSE IF data.kind = "Error" THEN <<"Error: ", data.text, "Stack: ">>
  ELSE IF data.kind = "object" THEN <<"Data: ", data.text>>
  ELSE IF data.kind = "circular object" THEN <<"Data: [Object that couldn't be stringified]">>
  ELSE <<"Data: ", data.text>>

\* Logger.log: the lines for the output channel and for the console; call is
\* the position of the call in logCalls
Log(call, level, message, data, channel) ==
  IF ~channel
    THEN [channel |-> <<>>,
          console |-> <<[call |-> call, level |-> level, text |-> <<message>>]>>
                        \o (IF Truthy(data)
                              THEN <<[call |-> call, level |-> level, text |-> <<data.text>>]>>
                            ELSE <<>>)]
  ELSE [channel |-> <<[call |-> call, level |-> level,
                       text |-> <<"timestamp", message>> \o DataSuffix(data)]>>,
        console |-> <<>>]

\* Variant: Logger.debug logs whatever the debug mode
DebugPasses_Always(mode) == TRUE

\* Logger.debug: if (this.debugMode)
DebugPasses(mode) == mode

\* Logger.debug / info / warn / error
LoggerMethod(call, level, message, data, channel, mode) ==
  IF level = LogLevel.DEBUG /\ ~DebugPasses(mode)
    THEN [channel |-> <<>>, console |-> <<>>]
  ELSE Log(call, level, message, data, channel)

LogCall(by, level) ==
  [op |-> "log", by |-> by, level |-> level, setting |-> enableDebugLogging]

InitLogger ==
  /\ pc = "idle"
  /\ StreamIdle
  /\ ChatIdle
  /\ CompletionIdle
  /\ outputChannel = FALSE
  /\ debugMode = FALSE
  /\ enableDebugLogging \in BOOLEAN
  /\ channelLines = <<>>
  /\ consoleLines = <<>>
  /\ logCalls = <<>>
  /\ PaletteIdle
  /\ ParticipantIdle

\* The user changes copilotCodeReview.enableDebugLogging
ChangeSetting ==
  /\ enableDebugLogging' = ~enableDebugLogging
  /\ UNCHANGED <<streamVars, chatVars, completionVars, outputChannel, debugMode,
                 channelLines, consoleLines, logCalls, paletteVars, participantVars>>

\* Logger.initialize, called once by activate: creates the channel, reads the
\* setting, then logs one info line and one debug line
LoggerInitialize ==
  /\ ~outputChannel
  /\ outputChannel' = TRUE
  /\ debugMode' = enableDebugLogging
  /\ LET n == Len(logCalls)
         info == LoggerMethod(n + 2, LogLevel.INFO, "Logger initialized", NoData,
                              TRUE, enableDebugLogging)
         debug == LoggerMethod(n + 3, LogLevel.DEBUG,
                               IF enableDebugLogging THEN "Debug logging is enabled"
                               ELSE "Debug logging is disabled",
                               NoData, TRUE, enableDebugLogging)
     IN  /\ logCalls' = logCalls \o <<[op |-> "initialize", by |-> "activate", level |-> "",
                                       setting |-> enableDebugLogging],
                                      LogCall("initialize", LogLevel.INFO),
                                      LogCall("initialize", LogLevel.DEBUG)>>
         /\ channelLines' = channelLines \o info.channel \o debug.channel
         /\ consoleLines' = consoleLines \o info.console \o debug.console
  /\ UNCHANGED <<streamVars, chatVars, completionVars, enableDebugLogging, paletteVars,
                 participantVars>>

\* The extension calls Logger.debug, info, warn or error
LoggerCall(level, data) ==
  /\ Cardinality({i \in 1..Len(logCalls) : logCalls[i].by = "extension"}) < MaxLogCalls
  /\ LET written == LoggerMethod(Len(logCalls) + 1, level, "message", data,
                                 outputChannel, debugMode)
     IN  /\ logCalls' = Append(logCalls, LogCall("extension", level))
         /\ channelLines' = channelLines \o written.channel
         /\ consoleLines' = consoleLines \o written.console
  /\ UNCHANGED <<streamVars, chatVars, completionVars, outputChannel, debugMode,
                 enableDebugLogging, paletteVars, participantVars>>

NextLogger ==
  \/ ChangeSetting
  \/ LoggerInitialize
  \/ \E level \in LogLevels, data \in DataValues : LoggerCall(level, data)

SpecLogger == InitLogger /\ [][NextLogger]_vars

----------------------------------------------------------------------------
(* registerCommandPaletteCommand: the command-palette entry of a chat command *)

MaxPaletteRuns == 2  \* executions of palette commands

ExecuteCommand(command, arg) == [command |-> command, arg |-> arg]

\* Variant: the command text is inserted before the participant
PaletteSteps_TextFirst(options) ==
  <<ExecuteCommand("workbench.action.chat.open", <<>>),
    ExecuteCommand("workbench.action.chat.insertText", <<" ">> \o options.commandTrigger),
    ExecuteCommand("workbench.action.chat.insertParticipant", Participant)>>

\* The awaited executeCommand calls of the try block, in order
PaletteSteps(options) ==
  <<ExecuteCommand("workbench.action.chat.open", <<>>),
    ExecuteCommand("workbench.action.chat.insertParticipant", Participant),
    ExecuteCommand("workbench.action.chat.insertText", <<" ">> \o options.commandTrigger)>>

\* A call of executeCommand by run r of the command registered under key
Executed(r, key, step, outcome) ==
  [run |-> r, key |-> key, command |-> step.command, arg |-> step.arg, outcome |-> outcome]

\* The catch branch: the text handed to showErrorMessage
PaletteErrorMessage(error) ==
  <<"Copilot Code Review: This command requires the GitHub Copilot Chat extension to be installed and activated. Error: ",
    IF error.isError THEN error.message ELSE "Unknown error">>

\* The calls run r has made so far
CallsOfRun(r) == SelectSeq(executed, LAMBDA c : c.run = r)

InitPalette ==
  /\ pc = "idle"
  /\ StreamIdle
  /\ ChatIdle
  /\ CompletionIdle
  /\ LoggerIdle
  /\ PaletteIdle
  /\ ParticipantIdle

\* The user runs the palette command: the callback starts and awaits the
\* first executeCommand
PaletteInvoke(options) ==
  /\ pc = "idle"
  /\ runs < MaxPaletteRuns
  /\ runs' = runs + 1
  /\ commandOptions' = options
  /\ executed' = Append(executed,
                        Executed(runs + 1, options.commandKey, PaletteSteps(options)[1],
                                 "pending"))
  /\ pc' = "executeCommand"
  /\ UNCHANGED <<review, workspaceFolders, stream, thrown, chatVars, completionVars,
                 loggerVars, notifications, participantVars>>

\* The awaited executeCommand settles: the next one is called, or the
\* callback ends, or the catch branch shows the error
PaletteStepSettles(outcome) ==
  /\ pc = "executeCommand"
  /\ LET n == Len(executed)
         step == Len(CallsOfRun(runs))
     IN  IF outcome.kind = "return"
           THEN /\ IF step < Len(PaletteSteps(commandOptions))
                     THEN /\ executed' = Append([executed EXCEPT ![n].outcome = "ok"],
                                                Executed(runs, commandOptions.commandKey,
                                                         PaletteSteps(commandOptions)[step + 1],
                                                         "pending"))
                          /\ pc' = "executeCommand"
                   ELSE /\ executed' = [executed EXCEPT ![n].outcome = "ok"]
                        /\ pc' = "idle"
                /\ UNCHANGED notifications
         ELSE /\ executed' = [executed EXCEPT ![n].outcome = "failed"]
              /\ notifications' = Append(notifications,
                                         [run |-> runs, text |-> PaletteErrorMessage(outcome.error)])
              /\ pc' = "idle"
  /\ thrown' = FALSE
  /\ UNCHANGED <<review, workspaceFolders, stream, chatVars, completionVars, loggerVars,
                 commandOptions, runs, participantVars>>

ExecuteOutcomes ==
  {Returned(<<>>, <<>>)} \cup {Threw(<<>>, error) : error \in ThrownValues}

NextPalette ==
  \/ \E options \in {ReviewOptions, DescriptionOptions} : PaletteInvoke(options)
  \/ \E outcome \in ExecuteOutcomes : PaletteStepSettles(outcome)

SpecPalette == InitPalette /\ [][NextPalette]_vars

----------------------------------------------------------------------------
(* Specification of the structured mode of streamCodeReview: longer review *)
(* texts over fewer kinds of line, with an open workspace folder, so that   *)
(* the comments of one file are separated by those of another.              *)

GroupLines ==
  {Heading(<<"a.ts">>), Heading(NoFile),
   Bullet(NoFile, NoRef), Bullet(<<"b.ts">>, <<1>>)}

GroupReviews == UNION {[1..n -> GroupLines] : n \in 0..MaxGroupLines}

InitGroup ==
  /\ review \in GroupReviews
  /\ workspaceFolders = TRUE
  /\ stream = <<>>
  /\ thrown = FALSE
  /\ pc = "start"
  /\ ChatIdle
  /\ CompletionIdle
  /\ LoggerIdle
  /\ PaletteIdle
  /\ ParticipantIdle

StreamGroupedReviewCall ==
  /\ pc = "start"
  /\ LET r == streamCodeReview(review, workspaceFolders)
     IN  /\ stream' = stream \o r.out
         /\ thrown' = r.threw
  /\ pc' = "done"
  /\ UNCHANGED <<review, workspaceFolders, chatVars, extVars>>

NextGroup == StreamGroupedReviewCall

SpecGroup == InitGroup /\ [][NextGroup]_vars

----------------------------------------------------------------------------
(* Properties of streamCodeReview, checked under SpecStream *)

ParsedComments == parseReviewComments(review)
NoCommentHasFile == \A k \in 1..Len(ParsedComments) : ParsedComments[k].file = NoFile
SomeCommentHasFile == \E k \in 1..Len(ParsedComments) : ParsedComments[k].file # NoFile
RawEvents == {i \in 1..Len(stream) : stream[i].type = "markdown" /\ stream[i].text = <<"raw", review>>}

\* C1: for a non-empty review text from which no comment with a file
\* reference is recovered, streamCodeReview writes the review text unchanged
\* in exactly one markdown call and emits no anchor and no reference.
C1_RawTextWhenNoFileReference ==
  (pc = "done" /\ Len(review) > 0 /\ NoCommentHasFile)
    => /\ Len(stream) = 1
       /\ stream[1].type = "markdown"
       /\ stream[1].text = <<"raw", review>>

C1_Witness ==
  /\ pc = "done"
  /\ Len(ParsedComments) > 0
  /\ NoCommentHasFile
  /\ RawEvents = {1}

StructuredMode ==
  pc = "done" /\ Len(review) > 0 /\ SomeCommentHasFile /\ workspaceFolders

\* The anchors written for a comment: the anchor event directly before the
\* markdown event that carries the comment's text
AnchorsOf(c) ==
  {i \in 1..(Len(stream) - 1) :
     /\ stream[i].type = "anchor"
     /\ stream[i + 1].type = "markdown"
     /\ Len(stream[i + 1].text) = 2
     /\ stream[i + 1].text[1] \in {"anchored comment", "comment"}
     /\ stream[i + 1].text[2] = c.comment}

AnchorTargets(c, first, last) ==
  /\ Cardinality(AnchorsOf(c)) = 1
  /\ \A i \in AnchorsOf(c) :
       stream[i].location = [uri |-> WorkspaceUri \o c.file,
                             start |-> <<first, 0>>, end |-> <<last, 0>>]

Smaller(a, b) == IF a <= b THEN a ELSE b
Larger(a, b) == IF a <= b THEN b ELSE a

\* C9 as stated: every comment with 'Line N', N >= 1, has exactly one
\* anchor at (N-1, 0) of its file; with 'Line N-M' exactly one anchor with the
\* range from (N-1, 0) to (M-1, 0); without a line reference no anchor.
C9_AnchorForEveryLineReference ==
  StructuredMode =>
    \A k \in 1..Len(ParsedComments) :
      LET c == ParsedComments[k]
          ln == c.lineNumbers
      IN  /\ (Len(ln) = 1 /\ ln[1] >= 1) => AnchorTargets(c, ln[1] - 1, ln[1] - 1)
          /\ (Len(ln) = 2 /\ ln[1] >= 1) => AnchorTargets(c, ln[1] - 1, ln[2] - 1)
          /\ Len(ln) = 0 => AnchorsOf(c) = {}

\* C9 amended: the comments that have a file reference are the ones that get
\* anchors; 'Line N' gives one anchor at (N-1, 0); 'Line N-M' with M >= 1
\* gives one anchor whose range runs from the smaller to the larger of the
\* two lines; 'Line N-0' gives no anchor; no line reference gives no anchor.
C9_AnchorForGroupedLineReference ==
  StructuredMode =>
    \A k \in 1..Len(ParsedComments) :
      LET c == ParsedComments[k]
          ln == c.lineNumbers
      IN  c.file # NoFile =>
            /\ (Len(ln) = 1 /\ ln[1] >= 1) => AnchorTargets(c, ln[1] - 1, ln[1] - 1)
            /\ (Len(ln) = 2 /\ ln[1] >= 1 /\ ln[2] >= 1)
                 => AnchorTargets(c, Smaller(ln[1], ln[2]) - 1, Larger(ln[1], ln[2]) - 1)
            /\ (Len(ln) = 2 /\ ln[1] >= 1 /\ ln[2] = 0) => AnchorsOf(c) = {}
            /\ Len(ln) = 0 => AnchorsOf(c) = {}

C9_Witness ==
  /\ StructuredMode
  /\ \E k \in 1..Len(ParsedComments) :
       LET c == ParsedComments[k]
       IN  /\ c.file # NoFile
           /\ Len(c.lineNumbers) = 2
           /\ c.lineNumbers[1] > c.lineNumbers[2]
           /\ c.lineNumbers[2] >= 1
           /\ AnchorsOf(c) # {}

----------------------------------------------------------------------------
(* Properties of the chat participant, checked under Spec *)

Dispatched == requests > 0
SelfReviewName == <<"s", "e", "l", "f", "-", "r", "e", "v", "i", "e", "w">>
WriteDescriptionName == <<"w", "r", "i", "t", "e", "-", "d", "e", "s", "c", "r", "i", "p", "t", "i", "o", "n">>

HasMarkdown(text) ==
  \E i \in 1..Len(stream) : stream[i].type = "markdown" /\ stream[i].text = text

ListsCommands(e) ==
  /\ e.type = "markdown"
  /\ \E j \in 1..Len(e.text) : e.text[j] = AVAILABLE_COMMANDS

\* C3: when getDiffWithMainBranch reports an error, the command handler
\* writes that error message, does not report that there are no code changes
\* and does not call the language model.
C3_GitErrorIsWritten ==
  diffResult.error # NoError
    => /\ HasMarkdown(<<diffResult.error>>)
       /\ ~HasMarkdown(<<"No code changes detected compared to the main branch.">>)
       /\ lmRequests = <<>>

\* C4: the diff is taken against main when the repository has a branch named
\* main and against master otherwise, and the mainBranchName of a successful
\* result is the branch that was diffed.
C4_DiffAgainstMainElseMaster ==
  \A i \in 1..Len(gitCalls) :
    gitCalls[i].command = "diff"
      => /\ gitCalls[i].ref = (IF MainName \in branches THEN MainName ELSE MasterName)
         /\ (pc # "gitDiff" /\ diffResult.error = NoError)
              => diffResult.mainBranchName = gitCalls[i].ref

\* C5: handleReviewCodeCommand runs exactly when the sub-command is
\* self-review, handleDescriptionCommand exactly when it is write-description;
\* for any other or missing sub-command neither runs, no git command and no
\* model request is made, and exactly one message listing the commands is
\* written.
C5_DispatchOnSubCommand ==
  Dispatched =>
    /\ ("handleReviewCodeCommand" \in {handlers[i] : i \in 1..Len(handlers)})
         <=> (request.command = SelfReviewName)
    /\ ("handleDescriptionCommand" \in {handlers[i] : i \in 1..Len(handlers)})
         <=> (request.command = WriteDescriptionName)
    /\ (request.command \notin {SelfReviewName, WriteDescriptionName})
         => /\ handlers = <<>>
            /\ gitCalls = <<>>
            /\ lmRequests = <<>>
            /\ Len(stream) = 1
            /\ ListsCommands(stream[1])

C5_Witness ==
  /\ Dispatched
  /\ request.command = NoString
  /\ typed.cmd = <<"/", "a", "l", "l">>
  /\ handlers = <<>>
  /\ Len(stream) = 1
  /\ ListsCommands(stream[1])

\* C6: every command the help text advertises performs its advertised action
\* when typed after @pr.
C6_AdvertisedCommandsWork ==
  Dispatched =>
    \A a \in AdvertisedCommands :
      typed.cmd = a.trigger =>
        /\ a.action = "review" => handlers = <<"handleReviewCodeCommand">>
        /\ a.action = "description" => handlers = <<"handleDescriptionCommand">>
        /\ a.action = "list" => (Len(stream) = 1 /\ ListsCommands(stream[1]))

\* The fenced blocks of the additional-context part of a prompt
ContextFilesOf(messages) ==
  {messages[j].body : j \in {k \in 3..Len(messages) : messages[k].kind = "fence"}}

\* C7: a /self-review request passes the contents of the changed files to
\* the model whatever its prompt, since no flag disables the inclusion.
C7_FilesIncludedByDefault ==
  \A i \in 1..Len(lmRequests) :
    CurrentHandler = "handleReviewCodeCommand"
      => \A path \in existingFiles :
           (\E k \in 1..Len(diffResult.diff) : diffResult.diff[k].path = path)
             => <<"content of", path>> \in ContextFilesOf(lmRequests[i].messages)

\* C8: selectChatModel returns a gpt-4o model when there is one and another
\* Copilot chat model when there is none, and does not report that no
\* suitable model was found while a Copilot chat model is available.
C8_FallsBackToOtherModels ==
  (\E m \in models : m.vendor = "copilot")
    => /\ model # NoModel
       /\ model \in models
       /\ Gpt4o \in models => model = Gpt4o
       /\ ~HasMarkdown(<<COPILOT_ERROR_MESSAGES.NO_MODEL>>)
       /\ ~HasMarkdown(<<"PR description generation failed: ", COPILOT_ERROR_MESSAGES.NO_MODEL>>)

----------------------------------------------------------------------------
(* Properties of the completion provider, checked under SpecCompletion *)

Labels == {completionItems.items[i].label : i \in 1..Len(completionItems.items)}

IsTriggerPrefix(text) ==
  \E k \in 1..Len(availableCommands) : StartsWith(availableCommands[k].commandTrigger, text)

\* C11: after '@pr ' and a text that is a prefix of a command trigger, from
\* the empty text to the complete trigger, provideCompletionItems returns a
\* list containing every available command whose trigger starts with the text.
C11_CompletionListsMatchingCommands ==
  pc = "done" =>
    \A lead \in Leads, text \in TypedTexts :
      (linePrefix = lead \o Participant \o <<" ">> \o text /\ IsTriggerPrefix(text))
        => /\ completionItems.kind = "items"
           /\ \A k \in 1..Len(availableCommands) :
                StartsWith(availableCommands[k].commandTrigger, text)
                  => availableCommands[k].commandTrigger \in Labels

----------------------------------------------------------------------------
(* Properties of the participant handler, checked under SpecParticipant *)

UnexpectedErrorEvents ==
  {i \in 1..Len(stream) :
     stream[i].type = "markdown" /\ stream[i].text[1] = "An unexpected error occurred: "}

\* C12: an exception thrown by the command handler is caught by the chat
\* request handler, which writes exactly one message 'An unexpected error
\* occurred: <message>', with 'Unknown error' when the thrown value is not an
\* Error, as the last event, and returns undefined without rejecting.
C12_HandlerExceptionIsReported ==
  (pc = "done" /\ settled.kind = "throw")
    => /\ Cardinality(UnexpectedErrorEvents) = 1
       /\ stream[Len(stream)]
            = Markdown(<<"An unexpected error occurred: ",
                         IF settled.error.isError THEN settled.error.message
                         ELSE "Unknown error">>)
       /\ result = NoResult
       /\ ~thrown

C12_Witness ==
  /\ pc = "done"
  /\ settled.kind = "throw"
  /\ ~settled.error.isError
  /\ Len(settled.events) > 0
  /\ UnexpectedErrorEvents = {Len(stream)}
  /\ stream[Len(stream)].text[2] = "Unknown error"

----------------------------------------------------------------------------
(* Properties of the Logger, checked under SpecLogger *)

\* The call of Logger.initialize that precedes call i, 0 when there is none
InitializedBefore(i) ==
  LET inits == {k \in 1..(i - 1) : logCalls[k].op = "initialize"}
  IN  IF inits = {} THEN 0 ELSE CHOOSE k \in inits : TRUE

ChannelLinesOf(i) ==
  {k \in 1..Len(channelLines) :
     channelLines[k].call = i /\ channelLines[k].level = logCalls[i].level}
ConsoleLinesOf(i) ==
  {k \in 1..Len(consoleLines) :
     consoleLines[k].call = i /\ consoleLines[k].level = logCalls[i].level}

\* After Logger.initialize: debug writes one line to the channel exactly when
\* the setting was enabled when initialize ran, the other levels always do
LoggedAfterInitialize(i) ==
  LET init == InitializedBefore(i)
  IN  IF logCalls[i].level = LogLevel.DEBUG
        THEN Cardinality(ChannelLinesOf(i)) = (IF logCalls[init].setting THEN 1 ELSE 0)
      ELSE Cardinality(ChannelLinesOf(i)) = 1

\* C13 as stated: debug writes to the output channel only when the setting
\* was enabled when Logger.initialize ran, info, warn and error write their
\* line whatever the setting; before Logger.initialize every level goes to
\* the console and no call throws.
C13_DebugGatedOthersAlways ==
  \A i \in 1..Len(logCalls) :
    logCalls[i].op = "log" =>
      IF InitializedBefore(i) # 0
        THEN LoggedAfterInitialize(i)
      ELSE ConsoleLinesOf(i) # {} /\ ChannelLinesOf(i) = {} /\ ~thrown

\* C13 amended: as above after Logger.initialize; before Logger.initialize
\* info, warn and error go to the console, debug writes nothing at all, and
\* no call throws.
C13_DebugSilentBeforeInitialize ==
  \A i \in 1..Len(logCalls) :
    logCalls[i].op = "log" =>
      IF InitializedBefore(i) # 0
        THEN LoggedAfterInitialize(i)
      ELSE /\ ChannelLinesOf(i) = {}
           /\ ~thrown
           /\ IF logCalls[i].level = LogLevel.DEBUG THEN ConsoleLinesOf(i) = {}
              ELSE ConsoleLinesOf(i) # {}

C13_Witness ==
  \E i, j \in 1..Len(logCalls) :
    /\ logCalls[i].op = "log" /\ logCalls[i].level = LogLevel.DEBUG
    /\ InitializedBefore(i) = 0
    /\ logCalls[i].setting
    /\ ConsoleLinesOf(i) = {}
    /\ logCalls[j].by = "extension" /\ logCalls[j].level = LogLevel.DEBUG
    /\ InitializedBefore(j) # 0
    /\ logCalls[InitializedBefore(j)].setting
    /\ ~logCalls[j].setting
    /\ ChannelLinesOf(j) # {}

----------------------------------------------------------------------------
(* Properties of the palette commands, checked under SpecPalette *)

TriggerOfKey(key) ==
  IF key = "copilot-code-review.review"
    THEN <<"/", "s", "e", "l", "f", "-", "r", "e", "v", "i", "e", "w">>
  ELSE <<"/", "w", "r", "i", "t", "e", "-", "d", "e", "s", "c", "r", "i", "p", "t", "i", "o", "n">>

\* The three steps, as the commands and arguments the host receives
ExpectedSteps(key) ==
  <<[command |-> "workbench.action.chat.open", arg |-> <<>>],
    [command |-> "workbench.action.chat.insertParticipant", arg |-> <<"@", "p", "r">>],
    [command |-> "workbench.action.chat.insertText", arg |-> <<" ">> \o TriggerOfKey(key)] >>

RunFinished(r) == r < runs \/ pc = "idle"
NotificationsOfRun(r) == {k \in 1..Len(notifications) : notifications[k].run = r}

\* C14: a palette command opens the chat view, then inserts the participant
\* '@pr', then inserts ' ' and the command's trigger; when a step fails the
\* later steps are not executed, exactly one error notification is shown and
\* the command does not throw.
C14_PaletteStepsInOrder ==
  \A r \in 1..runs :
    LET calls == CallsOfRun(r)
        n == Len(calls)
    IN  /\ n \in 1..3
        /\ \A k \in 1..n :
             /\ calls[k].command = ExpectedSteps(calls[k].key)[k].command
             /\ calls[k].arg = ExpectedSteps(calls[k].key)[k].arg
             /\ k < n => calls[k].outcome = "ok"
        /\ RunFinished(r) =>
             /\ calls[n].outcome \in {"ok", "failed"}
             /\ calls[n].outcome = "ok" => (n = 3 /\ NotificationsOfRun(r) = {})
             /\ calls[n].outcome = "failed" => Cardinality(NotificationsOfRun(r)) = 1
             /\ ~thrown

C14_Witness ==
  /\ runs = 2
  /\ pc = "idle"
  /\ Len(CallsOfRun(1)) = 2
  /\ CallsOfRun(1)[2].outcome = "failed"
  /\ Cardinality(NotificationsOfRun(1)) = 1
  /\ Len(CallsOfRun(2)) = 3
  /\ CallsOfRun(2)[3].outcome = "ok"
  /\ CallsOfRun(2)[3].arg = <<" ", "/", "w", "r", "i", "t", "e", "-", "d", "e", "s", "c", "r", "i", "p", "t", "i", "o", "n">>

----------------------------------------------------------------------------
(* Properties of cancellation and of the handlers' output, checked under Spec *)

ReviewRunning == CurrentHandler = "handleReviewCodeCommand"
DescriptionRunning == CurrentHandler = "handleDescriptionCommand"

\* Events that carry a part of the model's review: the raw text, the
\* references and anchors, the headers and comments of the structured output
ReviewOutput ==
  {i \in 1..Len(stream) :
     \/ stream[i].type \in {"anchor", "reference"}
     \/ /\ stream[i].type = "markdown"
        /\ stream[i].text[1] \in {"raw", "header", "newline", "index", "anchored comment",
                                  "comment", "plain header", "plain comment", "View code"}}

\* C15: when the cancellation token is set before sendRequestToModel
\* returns, the review flow writes no part of the model's response (no review
\* markdown, no anchor, no reference) and handleReviewCodeCommand returns
\* undefined.
C15_CancelledReviewWritesNothing ==
  (ReviewRunning /\ token)
    => /\ ReviewOutput = {}
       /\ pc = "done" => result = NoResult

C15_Witness ==
  /\ ReviewRunning
  /\ token
  /\ pc = "done"
  /\ response.error = NoError
  /\ Len(response.content) > 0
  /\ ReviewOutput = {}
  /\ result = NoResult

\* The description, the copy note and the button of one invocation
DescriptionWritten ==
  /\ \E i \in 1..Len(stream) :
       /\ stream[i].type = "markdown"
       /\ stream[i].text[1] = "## Generated PR Description"
       /\ stream[i].text[2] = response.content
  /\ HasMarkdown(<<CopyNote>>)
  /\ \E i \in 1..Len(stream) :
       stream[i].type = "button" /\ stream[i].title = "Copy to Clipboard"

DescriptionErrors ==
  {i \in 1..Len(stream) :
     /\ stream[i].type = "markdown"
     /\ stream[i].text[1] \in {"An error occurred while generating the PR description",
                               "PR description generation failed: ",
                               "An unexpected error occurred: "}}

\* C16: every invocation of write-description in which the model returns a
\* description, the first and the following ones of a session, writes the
\* description, the copy note and the button and no error message, and
\* afterwards copilot-code-review.copyToClipboard is registered.
C16_DescriptionIsRepeatable ==
  (DescriptionRunning /\ pc = "done" /\ ~token /\ response.error = NoError)
    => /\ DescriptionWritten
       /\ DescriptionErrors = {}
       /\ registered

Cancelled == COPILOT_ERROR_MESSAGES.CANCELLED

\* C17: no chat message contains the text 'Operation cancelled by user';
\* when a model call ends with the CANCELLED error response the handler
\* returns undefined and has written nothing but its progress notes.
C17_CancelledTextIsNeverWritten ==
  /\ \A i \in 1..Len(stream) :
       stream[i].type = "markdown"
         => /\ stream[i].text[1] # Cancelled
            /\ stream[i].text[1] \in {"Code review failed: ", "PR description generation failed: "}
                 => stream[i].text[2] # Cancelled
  /\ response.error = Cancelled
       => /\ pc = "done"
          /\ result = NoResult
          /\ \A i \in 1..Len(stream) : stream[i].type = "progress"

C17_Witness ==
  /\ DescriptionRunning
  /\ response.error = Cancelled
  /\ Len(lmRequests) = 1
  /\ Len(pending) > 0
  /\ pc = "done"
  /\ \A i \in 1..Len(stream) : stream[i].type = "progress"

\* C18: every invocation of handleReviewCodeCommand that completes without a
\* cancellation request has written at least one markdown message, whatever
\* the model answered, the empty response included.
C18_ReviewNeverEndsSilently ==
  (ReviewRunning /\ pc = "done" /\ ~token)
    => \E i \in 1..Len(stream) : stream[i].type = "markdown"

----------------------------------------------------------------------------
(* Properties of the grouping, checked under SpecGroup *)

\* The positions of the comments that have a file reference
WithFile(comments) == {k \in 1..Len(comments) : comments[k].file # NoFile}

HeaderEvents ==
  {i \in 1..Len(stream) : stream[i].type = "markdown" /\ stream[i].text[1] = "header"}

CommentEvents ==
  {i \in 1..Len(stream) :
     /\ stream[i].type = "markdown"
     /\ stream[i].text[1] \in {"comment", "anchored comment"}}

\* The events that carry the text of a parsed comment
WrittenAt(c) == {i \in CommentEvents : stream[i].text[2] = c.comment}

PositionOf(c) == IF WrittenAt(c) = {} THEN 0 ELSE CHOOSE i \in WrittenAt(c) : TRUE

\* The header a comment event stands under: the last header before it
HeaderAbove(i) ==
  LET before == {h \in HeaderEvents : h < i}
  IN  IF before = {} THEN 0
      ELSE CHOOSE h \in before : \A g \in before : g <= h

FirstOfItsFile(comments, k) ==
  \A j \in WithFile(comments) : comments[j].file = comments[k].file => k <= j

\* C19: in structured mode the comments written are exactly the parsed
\* comments that have a file reference: each of them is written exactly once,
\* the ones without a file are not written, there is one header per distinct
\* file and every comment stands under the header of its file, the comments
\* of one file keep their relative order, and the groups follow the order in
\* which their files first occur.
C19_GroupedByFileInOrder ==
  StructuredMode =>
    LET comments == ParsedComments
        withFile == WithFile(comments)
        files == {comments[k].file : k \in withFile}
        position == [k \in withFile |-> PositionOf(comments[k])]
        header == [k \in withFile |-> HeaderAbove(position[k])]
    IN  /\ \A k \in withFile : Cardinality(WrittenAt(comments[k])) = 1
        /\ \A k \in (1..Len(comments)) \ withFile : WrittenAt(comments[k]) = {}
        /\ \A i \in CommentEvents : \E k \in withFile : i \in WrittenAt(comments[k])
        /\ Cardinality(HeaderEvents) = Cardinality(files)
        /\ \A k \in withFile :
             /\ header[k] \in HeaderEvents
             /\ stream[header[k]].text = <<"header", LastSegment(comments[k].file)>>
        /\ \A j, k \in withFile :
             /\ (comments[j].file = comments[k].file) <=> (header[j] = header[k])
             /\ (j < k /\ comments[j].file = comments[k].file)
                  => position[j] < position[k]
             /\ (j < k /\ FirstOfItsFile(comments, j) /\ FirstOfItsFile(comments, k))
                  => header[j] < header[k]

\* A review whose comments of one file are separated by a comment of
\* another file, and which also has a comment without a file
C19_Witness ==
  /\ StructuredMode
  /\ LET comments == ParsedComments
         withFile == WithFile(comments)
     IN  /\ \E i, j, k \in withFile :
              /\ i < j /\ j < k
              /\ comments[i].file = comments[k].file
              /\ comments[i].file # comments[j].file
         /\ \E k \in 1..Len(comments) : comments[k].file = NoFile
  /\ Cardinality(HeaderEvents) = 2
  /\ Cardinality(CommentEvents) >= 3

====
